---- MODULE Spec2Model ----
(***************************************************************************)
(* The inventory ledger and costing engine of AcroChem (src/logic.py, as   *)
(* called from src/app.py, on the database connections of src/db.py).      *)
(*                                                                         *)
(* logic.py is one Python module: a name defined several times is bound to *)
(* its last definition when a function is called.  Two such bindings       *)
(* decide what the engine does:                                            *)
(*   - get_conn is db.get_conn (logic.py:630), which switches SQLite's     *)
(*     foreign keys on (db.py:125), so stock_ledger.material_code must     *)
(*     name a row of materials (logic.py:85);                              *)
(*   - datetime is the module datetime (logic.py:905), not the class       *)
(*     imported at logic.py:7, so datetime.now() raises AttributeError and *)
(*     datetime.date.today() works.                                        *)
(*                                                                         *)
(* SQLite REAL columns and Python floats are modelled as exact rationals   *)
(* <<numerator, denominator>> in lowest terms.  Quantities are drawn from  *)
(* integers, so every comparison the code makes (with 0, with the on-hand  *)
(* quantity, with its two thresholds) is decided as the floats decide it.  *)
(***************************************************************************)
EXTENDS Integers, Sequences, FiniteSets, TLC

VARIABLES
    materials,      \* table materials: the set of material_code keys
    material_factor,\* table materials: column issue_to_stock_factor of each row
    products,       \* table products: the set of product_code keys
    formulas,       \* table formulas: the rows in id order
    formula_seq,    \* sqlite_sequence of formulas: the largest id AUTOINCREMENT has handed out
    stock_ledger,   \* table stock_ledger: the rows in id order
    stocktake,      \* table stocktake: the rows in id order
    leaked,         \* a connection abandoned inside a write transaction still holds the database lock
    call,           \* per caller: the engine call it is inside, with what the call has read so far
    last,           \* history: the engine call that finished last, its inputs, outcome and the tables before it
    scenario,       \* history: how many steps of the spec's PIG-RED scenario the last calls have replayed
    report,         \* what the last finished call returned or showed, beyond its outcome
    today,          \* the day of the system clock, counted from the day the database was created
    thinner_recipes,\* table thinner_recipes: the rows, one per (thinner_code, material_code)
    thinner_sales   \* table thinner_sales: the rows in sale_id order

vars == <<materials, material_factor, products, formulas, formula_seq, stock_ledger, stocktake, leaked, call, last, scenario, report,
          today, thinner_recipes, thinner_sales>>

\* The thinner tables
thinners == <<thinner_recipes, thinner_sales>>

\* The product and formula tables
catalog == <<products, formulas, formula_seq>>

----------------------------------------------------------------------------
(* Bounds of the model and input domains *)

MaxLedger == 4
ConcMaxLedger == 2

MaterialCodes == {"M1", "M2"}
Callers == {"c1", "c2"}

\* materials.issue_to_stock_factor as the Materials page saves it by default
Factors == {1}

PurchaseQtys == {1, 2}
PurchaseCosts == {2}
IssueQtys == {1, 2}
CountedQtys == {0, 1}
AdjustDeltas == {-1, 0, 1}
AdjustCosts == {1, 2}

\* Inputs of the concurrent callers
ConcCodes == {"M1"}
ConcQtys == {1, 2}
ConcDeltas == {-1, 0, 1}

\* Inputs of the runs that pass every kind of argument: zero, negative and fractional
\* quantities, and that delete materials and scan the balances
LedgerMaxLedger == 3
LedgerCodes == {"M1"}
LedgerQtys == {-1, 0, 1}
LedgerDeltas == {<<-1, 1>>, <<0, 1>>, <<1, 1>>, <<-1, 25000>>}
LedgerCosts == {0}

\* Inputs of the runs over the catalog: materials, products, formula lines, batches
CatMaxLedger == 2
MaxFormulaId == 3
MaxFormulaRows == 2
CatCodes == {"M1"}
ProductCodes == {"P1"}
FormulaQtys == {0, 1}
CatDeltas == {1}
CatCosts == {1}
BatchMultipliers == {1}
BatchSizes == {2}

\* Bounds and inputs of the concurrent sessions on the catalog pages
ConcMaxFormulaId == 2
ConcFormulaQtys == {1}
ConcFormulaRowInputs == {<<>>, <<[material_code |-> "M1", qty |-> <<0, 1>>]>>}

\* Bounds and inputs of the thinner pages
ThinnerMaxLedger == 2
MaxSales == 2
MaxRecipeLines == 2
ThinnerCodes == {"T1"}
RecipeQtys == {1}
SaleQtys == {1, 2}
ThinnerDeltas == {2}
ThinnerCosts == {1}
\* issue_to_stock_factor of the materials behind the recipes: 0, 1/2 and 1
ThinnerFactors == {<<0, 1>>, <<1, 2>>, <<1, 1>>}
\* The ledger of the concurrent sessions on the Thinners page
ThinnerConcMaxLedger == 1

\* Bounds and inputs of the pages that read the ledger: how many rows, the last day
ViewMaxLedger == 3
MaxDay == 1
ViewQtys == {1}
ViewCosts == {1, 2}

\* The quantities of the spec's PIG-RED scenario (section 8)
PigRed == [purchase_qty |-> 100, purchase_cost |-> 500, issue_qty |-> 40,
           adjust_delta |-> -10, counted_qty |-> 45]

----------------------------------------------------------------------------
(* Exact rationals for REAL / float values *)

RECURSIVE GCD(_, _)
GCD(a, b) == IF b = 0 THEN a ELSE GCD(b, a % b)

IAbs(i) == IF i < 0 THEN -i ELSE i

Norm(n, d) ==
    LET s == IF d < 0 THEN -1 ELSE 1
        g == GCD(IAbs(n), IAbs(d))
    IN  <<(s * n) \div g, (s * d) \div g>>

R(i) == <<i, 1>>
Zero == R(0)
\* Sums and comparisons over the least common denominator and products after cancelling,
\* which keeps the intermediate integers small
LCM(a, b) == (a \div GCD(a, b)) * b
RAdd(x, y) ==
    LET l == LCM(x[2], y[2])
    IN  Norm(x[1] * (l \div x[2]) + y[1] * (l \div y[2]), l)
RNeg(x) == <<-x[1], x[2]>>
RSub(x, y) == RAdd(x, RNeg(y))
RMul(x, y) ==
    LET g1 == GCD(IAbs(x[1]), y[2])
        g2 == GCD(IAbs(y[1]), x[2])
    IN  Norm((x[1] \div g1) * (y[1] \div g2), (x[2] \div g2) * (y[2] \div g1))
RDiv(x, y) == RMul(x, Norm(y[2], y[1]))
RLt(x, y) ==
    LET l == LCM(x[2], y[2])
    IN  x[1] * (l \div x[2]) < y[1] * (l \div y[2])
RAbs(x) == <<IAbs(x[1]), x[2]>>

----------------------------------------------------------------------------
(* Module-level bindings *)

\* `import datetime` at logic.py:905 is the last binding of the name.
datetime == "module"

\* datetime.now(): an attribute of the class, not of the module.
datetime_now_raises == datetime = "module"

\* datetime.date.today(): reachable through the module only.
datetime_date_today_raises == datetime # "module"

\* abs(qty_delta) < 0.0000001
QtyDeltaEpsInv == 10000000
\* abs(new_qty) < 0.00001
NewQtyEpsInv == 100000

----------------------------------------------------------------------------
(* Reading the ledger *)

\* Column date holds an ISO string: the day alone ("2026-10-30"), or the day and the time of day
\* ("2026-10-30T09:15:02.123456").  Strings compare by day first, and a day alone is a prefix
\* of, so less than, every string of that day with a time.  time 0 stands for no time of day.
IsoDate(day, time) == [day |-> day, time |-> time]

DateLt(a, b) == a.day < b.day \/ (a.day = b.day /\ a.time < b.time)

\* One stock_ledger row.  ref_no, uom and note are written and never read back by the engine.
LedgerRow(id, date, ref_type, material_code, qty, qty_stock, cost_per_stock, total_cost) ==
    [id |-> id, date |-> date, ref_type |-> ref_type, material_code |-> material_code, qty |-> qty,
     qty_stock |-> qty_stock, cost_per_stock |-> cost_per_stock, total_cost |-> total_cost]

\* The id of the first row ever inserted into a table
FirstId(rows) == Len(<<>>) + 1

\* id INTEGER PRIMARY KEY AUTOINCREMENT: one more than the largest id ever used; rows are never deleted.
NextId(rows) == Len(rows) + 1

RowsOf(led, material_code) == SelectSeq(led, LAMBDA r : r.material_code = material_code)

RECURSIVE SumQtyStock(_, _)
\* SUM(qty_stock) ... WHERE material_code=?
SumQtyStock(led, material_code) ==
    IF led = <<>> THEN Zero
    ELSE LET r == led[Len(led)]
         IN  RAdd(SumQtyStock(SubSeq(led, 1, Len(led) - 1), material_code),
                  IF r.material_code = material_code THEN r.qty_stock ELSE Zero)

RECURSIVE SumTotalCost(_, _)
\* SUM(total_cost) ... WHERE material_code=?
SumTotalCost(led, material_code) ==
    IF led = <<>> THEN Zero
    ELSE LET r == led[Len(led)]
         IN  RAdd(SumTotalCost(SubSeq(led, 1, Len(led) - 1), material_code),
                  IF r.material_code = material_code THEN r.total_cost ELSE Zero)

\* _current_stock: COALESCE(SUM(qty_stock), 0), COALESCE(SUM(total_cost), 0); avg_cost = cost / qty if qty != 0 else 0
current_stock(led, material_code) ==
    LET qty == SumQtyStock(led, material_code)
        cost == SumTotalCost(led, material_code)
    IN  [qty |-> qty, avg_cost |-> IF qty # Zero THEN RDiv(cost, qty) ELSE Zero]

\* post_stock_adjustment's read: SELECT qty_stock, cost_per_stock ... ORDER BY id DESC LIMIT 1; 0.0, 0.0 without a row
latest_balance(led, material_code) ==
    LET rows == RowsOf(led, material_code)
    IN  IF rows = <<>> THEN [qty |-> Zero, avg_cost |-> Zero]
        ELSE [qty |-> rows[Len(rows)].qty_stock, avg_cost |-> rows[Len(rows)].cost_per_stock]

----------------------------------------------------------------------------
(* The engine's operations, as functions from the tables to an outcome *)

Outcome(err, led, stk, lk) == [err |-> err, ledger |-> led, stocktake |-> stk, leaked |-> lk]

\* post_stock: date = datetime.now().isoformat(), a time of day that is later at every call;
\* total_cost = qty_stock * cost_per_stock; one INSERT inside `with get_conn()`, which rolls
\* back on an exception and so abandons no transaction.
post_stock(led, stk, lk, mats, material_code, qty, cost_per_stock, ref_type) ==
    IF datetime_now_raises THEN Outcome("AttributeError", led, stk, lk)
    ELSE IF lk THEN Outcome("OperationalError", led, stk, lk)
    ELSE IF material_code \notin mats THEN Outcome("IntegrityError", led, stk, lk)
    ELSE Outcome("ok",
                 Append(led, LedgerRow(NextId(led), IsoDate(today, NextId(led)), ref_type, material_code, qty, qty,
                                       cost_per_stock, RMul(qty, cost_per_stock))),
                 stk, lk)

\* receive_purchase: cost_per_stock = total_cost / qty_stock if qty_stock else 0
receive_purchase(led, stk, lk, mats, material_code, qty_stock, total_cost) ==
    post_stock(led, stk, lk, mats, material_code, qty_stock,
               IF qty_stock # Zero THEN RDiv(total_cost, qty_stock) ELSE Zero, "PURCHASE")

\* issue_stock after its balance read `read`: ValueError("Insufficient stock") if qty_stock > current_qty
issue_stock(led, stk, lk, mats, material_code, qty_stock, read, ref_type) ==
    IF RLt(read.qty, qty_stock) THEN Outcome("InsufficientStock", led, stk, lk)
    ELSE post_stock(led, stk, lk, mats, material_code, RNeg(qty_stock), read.avg_cost, ref_type)

\* post_stocktake after its balance read `read`.  The stocktake INSERT evaluates datetime.now()
\* among its parameters; it commits when its `with` block ends, before the variance is posted.
post_stocktake(led, stk, lk, mats, material_code, counted_qty_stock, read) ==
    LET variance == RSub(counted_qty_stock, read.qty)
        recorded == Append(stk, [id |-> NextId(stk), material_code |-> material_code,
                                 counted_qty_stock |-> counted_qty_stock,
                                 system_qty_stock |-> read.qty, variance |-> variance])
    IN  IF datetime_now_raises THEN Outcome("AttributeError", led, stk, lk)
        ELSE IF lk THEN Outcome("OperationalError", led, stk, lk)
        ELSE IF variance # Zero
             THEN post_stock(led, recorded, lk, mats, material_code, variance, read.avg_cost, "STOCKTAKE")
             ELSE Outcome("ok", led, recorded, lk)

\* post_stock_adjustment's argument check, made before anything is read
adjustment_rejected(qty_delta) == RLt(RAbs(qty_delta), <<1, QtyDeltaEpsInv>>)

\* abs(new_qty) < 0.00001
near_zero(new_qty) == RLt(RAbs(new_qty), <<1, NewQtyEpsInv>>)

\* The row post_stock_adjustment builds from its read of the latest row, dated
\* datetime.date.today().isoformat(): the day, without a time of day
adjustment_row(id, code, qty_delta, cost_per_uom, read, ref_type) ==
    LET prev_qty == read.qty
        prev_cost == read.avg_cost
        new_qty == RAdd(prev_qty, qty_delta)
        move_cost == IF RLt(Zero, qty_delta) THEN RMul(qty_delta, cost_per_uom)
                     ELSE RMul(qty_delta, prev_cost)
        new_cost == IF near_zero(new_qty) THEN Zero
                    ELSE IF RLt(Zero, qty_delta)
                         THEN RDiv(RAdd(RMul(prev_qty, prev_cost), RMul(qty_delta, cost_per_uom)), new_qty)
                         ELSE prev_cost
    IN  LedgerRow(id, IsoDate(today, 0), ref_type, code, qty_delta, new_qty, new_cost, move_cost)

\* post_stock_adjustment after its read `read`: the INSERT and conn.commit() on a connection that is
\* never closed; an INSERT that fails leaves that connection inside its transaction.
post_stock_adjustment(led, stk, lk, mats, code, qty_delta, cost_per_uom, read, ref_type) ==
    IF adjustment_rejected(qty_delta) THEN Outcome("InvalidArgument", led, stk, lk)
    ELSE IF datetime_date_today_raises THEN Outcome("AttributeError", led, stk, lk)
    ELSE IF lk THEN Outcome("OperationalError", led, stk, TRUE)
    ELSE IF code \notin mats THEN Outcome("IntegrityError", led, stk, TRUE)
    ELSE Outcome("ok", Append(led, adjustment_row(NextId(led), code, qty_delta, cost_per_uom, read, ref_type)),
                 stk, lk)

\* delete_material (the definition at logic.py:483, the last one): DELETE on a connection of
\* sqlite3.connect(DB_PATH), which never switches foreign keys on; commit; close.
delete_material(mats, lk, material_code) ==
    IF lk THEN [err |-> "OperationalError", materials |-> mats]
    ELSE [err |-> "ok", materials |-> mats \ {material_code}]

----------------------------------------------------------------------------
(* Products and formula lines.  Every function here runs inside `with get_conn() as conn`, *)
(* which rolls the transaction back when the block raises.                                 *)

CatalogOutcome(err, fs, seq) == [err |-> err, formulas |-> fs, formula_seq |-> seq]

FormulaRow(id, product_code, material_code, qty) ==
    [id |-> id, product_code |-> product_code, material_code |-> material_code, qty |-> qty]

\* The foreign keys of formulas: product_code REFERENCES products, material_code REFERENCES materials
formula_keys_exist(prods, mats, product_code, material_code) ==
    product_code \in prods /\ material_code \in mats

\* add_formula_line (the definition at logic.py:567, the last one): SELECT COUNT(*) of the pair,
\* ValueError when it is there, else INSERT.  It does not look at qty.  The SELECT runs
\* before any transaction is open: `exists` is what it returned, the rest runs on the tables
\* as they are when the INSERT takes the lock.
formula_line_exists(fs, product_code, material_code) ==
    \E i \in DOMAIN fs : fs[i].product_code = product_code /\ fs[i].material_code = material_code

add_formula_line(fs, seq, lk, prods, mats, product_code, material_code, qty, exists) ==
    IF exists
    THEN CatalogOutcome("AlreadyExists", fs, seq)
    ELSE IF lk THEN CatalogOutcome("OperationalError", fs, seq)
    ELSE IF ~formula_keys_exist(prods, mats, product_code, material_code)
    THEN CatalogOutcome("IntegrityError", fs, seq)
    ELSE CatalogOutcome("ok", Append(fs, FormulaRow(seq + 1, product_code, material_code, qty)), seq + 1)

RECURSIVE insert_formula_rows(_, _, _, _)
\* set_formula's loop: one INSERT per row of `rows`, as given
insert_formula_rows(fs, seq, product_code, rows) ==
    IF rows = <<>> THEN CatalogOutcome("ok", fs, seq)
    ELSE insert_formula_rows(Append(fs, FormulaRow(seq + 1, product_code, rows[1].material_code, rows[1].qty)),
                             seq + 1, product_code, Tail(rows))

\* set_formula: DELETE the product's lines, then INSERT the given rows, in one transaction
set_formula(fs, seq, lk, prods, mats, product_code, rows) ==
    IF lk THEN CatalogOutcome("OperationalError", fs, seq)
    ELSE IF \E i \in DOMAIN rows : ~formula_keys_exist(prods, mats, product_code, rows[i].material_code)
    THEN CatalogOutcome("IntegrityError", fs, seq)
    ELSE insert_formula_rows(SelectSeq(fs, LAMBDA r : r.product_code # product_code), seq, product_code, rows)

\* delete_product: DELETE FROM products; the foreign key of formulas.product_code refuses it
\* while a formula line names the product
delete_product(prods, fs, lk, product_code) ==
    IF lk THEN [err |-> "OperationalError", products |-> prods]
    ELSE IF \E i \in DOMAIN fs : fs[i].product_code = product_code
    THEN [err |-> "IntegrityError", products |-> prods]
    ELSE [err |-> "ok", products |-> prods \ {product_code}]

\* delete_formula_line (the definition at logic.py:609, the last one): DELETE FROM formulas WHERE id=?
delete_formula_line(fs, seq, lk, formula_id) ==
    IF lk THEN CatalogOutcome("OperationalError", fs, seq)
    ELSE CatalogOutcome("ok", SelectSeq(fs, LAMBDA r : r.id # formula_id), seq)

\* _get_formula_lines: the product's lines JOINed with materials; a line whose material is
\* gone from the catalog drops out
formula_lines(fs, mats, product_code) ==
    SelectSeq(fs, LAMBDA r : r.product_code = product_code /\ r.material_code \in mats)

\* ORDER BY m.category, m.material_name: names and categories are not part of the model, so
\* the lines may come in any order
Orderings(lines) ==
    {f \in [DOMAIN lines -> DOMAIN lines] : \A i, j \in DOMAIN lines : f[i] = f[j] => i = j}

RECURSIVE post_batch(_, _, _, _, _, _, _)
\* The loop of the Batches page: skip a line with quantity <= 0, issue_stock for every other
\* line; an exception of issue_stock leaves the loop and the page
post_batch(led, stk, lk, mats, lines, multiplier, posted) ==
    IF lines = <<>> THEN [err |-> "ok", ledger |-> led, posted |-> posted]
    ELSE LET q_issue == RMul(lines[1].qty, multiplier)
         IN  IF ~RLt(Zero, q_issue)
             THEN post_batch(led, stk, lk, mats, Tail(lines), multiplier, posted)
             ELSE LET res == issue_stock(led, stk, lk, mats, lines[1].material_code, q_issue,
                                         current_stock(led, lines[1].material_code), "BATCH")
                  IN  IF res.err # "ok"
                      THEN [err |-> res.err, ledger |-> res.ledger, posted |-> posted]
                      ELSE post_batch(res.ledger, stk, lk, mats, Tail(lines), multiplier, posted + 1)

RECURSIVE batch_cost_loop(_, _, _, _)
\* calculate_batch_cost's loop over the rows read: qty_needed = row["qty"] * batch_size;
\* _, avg_cost = _current_stock(row["material_code"]); total_cost += qty_needed * avg_cost
batch_cost_loop(f, led, batch_size, total_cost) ==
    IF f = <<>> THEN total_cost
    ELSE batch_cost_loop(Tail(f), led, batch_size,
                         RAdd(total_cost, RMul(RMul(f[1].qty, batch_size),
                                               current_stock(led, f[1].material_code).avg_cost)))

\* The cost of the product's lines for one batch, whatever batch_size is
cost_of_one_batch(fs, led, product_code, batch_size) ==
    batch_cost_loop(SelectSeq(fs, LAMBDA r : r.product_code = product_code), led, R(1), Zero)

\* calculate_batch_cost: SELECT * FROM formulas WHERE product_code=?, total_cost = 0, the loop
calculate_batch_cost(fs, led, product_code, batch_size) ==
    batch_cost_loop(SelectSeq(fs, LAMBDA r : r.product_code = product_code), led, batch_size, Zero)

\* What the Batches page shows: st.success with the count, or the exception that escaped
batch_report(res) ==
    IF res.err = "ok" THEN [shown |-> "success", posted |-> res.posted]
    ELSE [shown |-> "exception", message |-> res.err]

----------------------------------------------------------------------------
(* Thinner recipes and thinner sales *)

ThinnerOutcome(err, led, recipes, sales) ==
    [err |-> err, ledger |-> led, thinner_recipes |-> recipes, thinner_sales |-> sales]

\* upsert_thinner_recipe (the definition at logic.py:725, the last one): DELETE the thinner's
\* lines and INSERT the given ones in one transaction; PRIMARY KEY (thinner_code,
\* material_code) refuses a material given twice; material_code has no foreign key
upsert_thinner_recipe(led, recipes, sales, lk, thinner_code, lines) ==
    IF lk THEN ThinnerOutcome("OperationalError", led, recipes, sales)
    ELSE IF \E i, j \in DOMAIN lines : i # j /\ lines[i].material_code = lines[j].material_code
    THEN ThinnerOutcome("IntegrityError", led, recipes, sales)
    ELSE ThinnerOutcome("ok", led,
                        {r \in recipes : r.thinner_code # thinner_code}
                            \cup {[thinner_code |-> thinner_code, material_code |-> lines[i].material_code,
                                   qty_issue |-> lines[i].qty_issue] : i \in DOMAIN lines},
                        sales)

\* The columns of stock_ledger as init_db creates it, and those of them that are NOT NULL
\* and get no value of their own
stock_ledger_columns ==
    {"id", "date", "ref_type", "ref_no", "material_code", "qty", "uom", "qty_stock",
     "cost_per_stock", "total_cost", "note"}
stock_ledger_required ==
    {"date", "ref_type", "material_code", "qty", "uom", "qty_stock", "cost_per_stock", "total_cost"}

\* The columns record_thinner_sale_and_deduct_stock names in its INSERT INTO stock_ledger
thinner_issue_columns ==
    {"date", "material_code", "movement_type", "ref", "qty_stock", "total_cost", "notes"}

\* delete_thinner_recipe_line: DELETE the one line of the thinner with that material
delete_thinner_recipe_line(led, recipes, sales, lk, thinner_code, material_code) ==
    IF lk THEN ThinnerOutcome("OperationalError", led, recipes, sales)
    ELSE ThinnerOutcome("ok", led,
                        {r \in recipes : ~(r.thinner_code = thinner_code /\ r.material_code = material_code)},
                        sales)

\* Python's None, which a column of the frame holds when the query gave NULL in every row
Null == <<0, 0>>

\* The float NaN, which a column of the frame holds for NULL when another row has a number
NaN == <<1, 0>>

\* The recipe as record_thinner_sale_and_deduct_stock reads it: the thinner's lines, LEFT JOINed
\* with materials for issue_to_stock_factor, which is NULL for a code without a material.
\* pd.read_sql turns a column of numbers and NULLs into floats with NaN for NULL, and leaves
\* a column of NULLs only as None.
read_recipe(recipes, facs, thinner_code) ==
    LET rows == {x \in recipes : x.thinner_code = thinner_code}
        missing == IF \E x \in rows : x.material_code \in DOMAIN facs THEN NaN ELSE Null
    IN  {[material_code |-> r.material_code, qty_issue |-> r.qty_issue,
          issue_to_stock_factor |-> IF r.material_code \in DOMAIN facs THEN facs[r.material_code] ELSE missing] :
            r \in rows}

\* float(r["issue_to_stock_factor"] or 1.0): None and 0.0 give 1.0, NaN is true and stays NaN
issue_to_stock_factor(r) ==
    IF r.issue_to_stock_factor = Null \/ r.issue_to_stock_factor = Zero THEN R(1) ELSE r.issue_to_stock_factor

\* Float multiplication and negation, where an operand may be NaN
FMul(x, y) == IF x = NaN \/ y = NaN THEN NaN ELSE RMul(x, y)
FNeg(x) == IF x = NaN THEN NaN ELSE RNeg(x)

\* qty_issue_total = per_unit_issue * qty_sold; qty_stock_total = qty_issue_total * factor
qty_stock_total(r, qty_sold) == FMul(RMul(r.qty_issue, qty_sold), issue_to_stock_factor(r))

RECURSIVE deduct_recipe(_, _, _, _, _)
\* The loop over the recipe's lines, one material each, in the order the SELECT returns them:
\* per line the quantity in stock units, the average cost from SUM(qty_stock) and
\* SUM(total_cost), and the INSERT INTO stock_ledger, which binds NaN as NULL
deduct_recipe(led, mats, lines, qty_sold, sale_date) ==
    IF lines = {} THEN [err |-> "ok", ledger |-> led]
    ELSE LET r == CHOOSE x \in lines : TRUE
             qty_stock == qty_stock_total(r, qty_sold)
             unit_cost == current_stock(led, r.material_code).avg_cost
             cost_to_remove == FMul(unit_cost, qty_stock)
         IN  IF ~(thinner_issue_columns \subseteq stock_ledger_columns)
             THEN [err |-> "OperationalError", ledger |-> led]
             ELSE IF \/ ~(stock_ledger_required \subseteq thinner_issue_columns)
                     \/ r.material_code \notin mats
                     \/ FNeg(qty_stock) = NaN
             THEN [err |-> "IntegrityError", ledger |-> led]
             ELSE deduct_recipe(Append(led, LedgerRow(NextId(led), sale_date, "ISSUE", r.material_code,
                                                      FNeg(qty_stock), FNeg(qty_stock),
                                                      unit_cost, FNeg(cost_to_remove))),
                                mats, lines \ {r}, qty_sold, sale_date)

\* record_thinner_sale_and_deduct_stock from `if recipe.empty`, with `recipe` the rows it
\* has read: ValueError without a recipe; else the sale INSERT and the loop inside one
\* `with get_conn()`, which rolls both back when the loop raises
record_thinner_sale_and_deduct_stock(led, recipes, sales, lk, mats, sale_date, thinner_code, qty_sold, recipe) ==
    LET deducted == deduct_recipe(led, mats, recipe, qty_sold, sale_date)
    IN  IF recipe = {} THEN ThinnerOutcome("NoRecipe", led, recipes, sales)
        ELSE IF lk THEN ThinnerOutcome("OperationalError", led, recipes, sales)
        ELSE IF deducted.err # "ok" THEN ThinnerOutcome(deducted.err, led, recipes, sales)
        ELSE ThinnerOutcome("ok", deducted.ledger, recipes,
                            Append(sales, [sale_id |-> NextId(sales), sale_date |-> sale_date,
                                           thinner_code |-> thinner_code, qty_sold |-> qty_sold]))

----------------------------------------------------------------------------
(* The stock-on-hand view and the negative-balance scan *)

\* df["qty_on_hand"].round(4) and df["avg_cost"].round(6)
QtyDecimals == 4
CostDecimals == 6

RECURSIVE Pow10(_)
Pow10(k) == IF k = 0 THEN 1 ELSE 10 * Pow10(k - 1)

RECURSIVE ScaledFloor(_, _, _)
\* <<floor(n * 10^k / d), the remainder over d>>, one decimal digit at a time
ScaledFloor(n, d, k) ==
    IF k = 0 THEN <<n \div d, n % d>>
    ELSE LET p == ScaledFloor(n, d, k - 1)
         IN  <<p[1] * 10 + (p[2] * 10) \div d, (p[2] * 10) % d>>

\* round(decimals): to the nearest multiple of 10^-decimals, ties to even
RoundTo(x, decimals) ==
    LET whole == x[1] \div x[2]
        p == ScaledFloor(x[1] % x[2], x[2], decimals)
        fl == p[1]
        twice == 2 * p[2]
    IN  RAdd(R(whole),
             Norm(IF twice < x[2] THEN fl
                  ELSE IF twice > x[2] THEN fl + 1
                  ELSE IF fl % 2 = 0 THEN fl ELSE fl + 1,
                  Pow10(decimals)))

\* WHERE ABS(l.qty_stock) > 0.00001
OnFloorEpsInv == 100000
on_the_floor(qty_stock) == RLt(<<1, OnFloorEpsInv>>, RAbs(qty_stock))

\* The material codes with at least one ledger row
CodesOf(led) == {led[i].material_code : i \in DOMAIN led}

\* JOIN stock_ledger l ON l.id = x.max_id: the row with the largest id of a material code
LatestRow(led, material_code) ==
    LET rows == RowsOf(led, material_code) IN rows[Len(rows)]

\* ROUND(l.qty_stock * l.cost_per_stock, 2)
ValueDecimals == 2

\* SQLite's ROUND(x, decimals): to the nearest multiple of 10^-decimals, ties away from 0
RoundSql(x, decimals) ==
    LET a == RAbs(x)
        whole == a[1] \div a[2]
        p == ScaledFloor(a[1] % a[2], a[2], decimals)
        r == RAdd(R(whole), Norm(IF 2 * p[2] >= a[2] THEN p[1] + 1 ELSE p[1], Pow10(decimals)))
    IN  IF x[1] < 0 THEN RNeg(r) ELSE r

\* get_stock_on_hand(""): the latest row of every material code whose qty_stock is not near 0,
\* with qty_on_hand rounded to 4 and avg_cost to 6 decimals, and stock_value as SQL computes
\* it from the row.  The columns name and uom, copied from materials, are left out.
get_stock_on_hand(led) ==
    {[code |-> c,
      qty_on_hand |-> RoundTo(LatestRow(led, c).qty_stock, QtyDecimals),
      avg_cost |-> RoundTo(LatestRow(led, c).cost_per_stock, CostDecimals),
      stock_value |-> RoundSql(RMul(LatestRow(led, c).qty_stock, LatestRow(led, c).cost_per_stock),
                               ValueDecimals)] :
        c \in {k \in CodesOf(led) : on_the_floor(LatestRow(led, k).qty_stock)}}

\* LIMIT 2000
LedgerLimit == 2000

\* Ledger page: SELECT * FROM stock_ledger ORDER BY date DESC LIMIT 2000.  The set of the
\* orders SQL allows: rows by falling date, rows of equal date in any order.
ledger_page(led) ==
    {SubSeq([i \in DOMAIN f |-> led[f[i]]], 1, IF Len(led) < LedgerLimit THEN Len(led) ELSE LedgerLimit) :
        f \in {g \in [DOMAIN led -> DOMAIN led] :
                  /\ \A i, j \in DOMAIN led : g[i] = g[j] => i = j
                  /\ \A i, j \in DOMAIN led : i < j => ~DateLt(led[g[i]].date, led[g[j]].date)}}

\* df["qty_on_hand"] < -0.00001
NegativeEpsInv == 100000

\* integrity_check_stock: the rows of get_stock_on_hand("") with qty_on_hand < -0.00001
integrity_check_stock(led) ==
    {r \in get_stock_on_hand(led) : RLt(r.qty_on_hand, <<-1, NegativeEpsInv>>)}

----------------------------------------------------------------------------
(* History kept for the properties: the last finished call and the scenario replayed *)

Idle == [op |-> "idle"]

\* A call that returns None and shows nothing
NoReport == [shown |-> "nothing"]

NoRead == [qty |-> Zero, avg_cost |-> Zero]

CallRecord(op, material_code, qty, cost, result, read) ==
    [op |-> op, material_code |-> material_code, qty |-> qty, cost |-> cost, result |-> result,
     read |-> read, ledger_before |-> stock_ledger, stocktake_before |-> stocktake,
     materials_before |-> materials,
     repeat |-> (last.op = op /\ last.material_code = material_code /\ last.qty = qty)]

\* Spec section 8: receive 100 at total cost 500 on a material without entries, issue 40,
\* adjust -10, stocktake 45, each call right after the one before, on the same material.
ScenarioStep(op, material_code, qty, cost) ==
    IF /\ op = "receive" /\ qty = R(PigRed.purchase_qty) /\ cost = R(PigRed.purchase_cost)
       /\ material_code \in materials /\ RowsOf(stock_ledger, material_code) = <<>> THEN 1
    ELSE IF scenario = 1 /\ op = "issue" /\ material_code = last.material_code /\ qty = R(PigRed.issue_qty) THEN 2
    ELSE IF scenario = 2 /\ op = "adjust" /\ material_code = last.material_code /\ qty = R(PigRed.adjust_delta) THEN 3
    ELSE IF scenario = 3 /\ op = "stocktake" /\ material_code = last.material_code /\ qty = R(PigRed.counted_qty) THEN 4
    ELSE 0

\* A call ends with outcome `res`: the tables it leaves, and the history of it.
Finish(op, material_code, qty, cost, res, read) ==
    /\ stock_ledger' = res.ledger
    /\ stocktake' = res.stocktake
    /\ leaked' = res.leaked
    /\ last' = CallRecord(op, material_code, qty, cost, res.err, read)
    /\ scenario' = ScenarioStep(op, material_code, qty, cost)
    /\ report' = NoReport
    /\ UNCHANGED <<today, thinners, materials, material_factor, catalog>>

----------------------------------------------------------------------------
(* The state after init_db(): empty tables *)

Init ==
    /\ materials = {}
    /\ material_factor = <<>>
    /\ stock_ledger = <<>>
    /\ stocktake = <<>>
    /\ leaked = FALSE
    /\ products = {}
    /\ formulas = <<>>
    /\ formula_seq = 0
    /\ report = NoReport
    /\ call = [c \in Callers |-> Idle]
    /\ last = [op |-> "init", material_code |-> "", qty |-> Zero, cost |-> Zero, result |-> "ok",
               read |-> NoRead, ledger_before |-> <<>>, stocktake_before |-> <<>>,
               materials_before |-> {}, repeat |-> FALSE]
    /\ scenario = 0
    /\ today = 0
    /\ thinner_recipes = {}
    /\ thinner_sales = <<>>

----------------------------------------------------------------------------
(* Calls that run from start to end with no other call in between *)

\* upsert_material: INSERT ... ON CONFLICT(material_code) DO UPDATE, inside `with get_conn()`
UpsertMaterial(material_code, factor) ==
    /\ materials' = IF leaked THEN materials ELSE materials \cup {material_code}
    /\ material_factor' = IF leaked THEN material_factor
                          ELSE [m \in materials \cup {material_code} |->
                                   IF m = material_code THEN factor ELSE material_factor[m]]
    /\ last' = CallRecord("upsert", material_code, Zero, Zero,
                          IF leaked THEN "OperationalError" ELSE "ok", NoRead)
    /\ scenario' = 0
    /\ report' = NoReport
    /\ UNCHANGED <<today, thinners, stock_ledger, stocktake, leaked, call, catalog>>

ReceivePurchase(material_code, qty_stock, total_cost) ==
    /\ Finish("receive", material_code, qty_stock, total_cost,
              receive_purchase(stock_ledger, stocktake, leaked, materials, material_code, qty_stock, total_cost),
              NoRead)
    /\ UNCHANGED call

IssueStock(material_code, qty_stock) ==
    LET read == current_stock(stock_ledger, material_code)
    IN  /\ Finish("issue", material_code, qty_stock, Zero,
                  issue_stock(stock_ledger, stocktake, leaked, materials, material_code, qty_stock, read, "BATCH"),
                  read)
        /\ UNCHANGED call

PostStocktake(material_code, counted_qty_stock) ==
    LET read == current_stock(stock_ledger, material_code)
    IN  /\ Finish("stocktake", material_code, counted_qty_stock, Zero,
                  post_stocktake(stock_ledger, stocktake, leaked, materials, material_code, counted_qty_stock, read),
                  read)
        /\ UNCHANGED call

PostStockAdjustment(code, qty_delta, cost_per_uom) ==
    LET read == latest_balance(stock_ledger, code)
    IN  /\ Finish("adjust", code, qty_delta, cost_per_uom,
                  post_stock_adjustment(stock_ledger, stocktake, leaked, materials, code, qty_delta,
                                        cost_per_uom, read, "MANUAL"),
                  read)
        /\ UNCHANGED call

\* The interpreter's cycle collector closes an abandoned connection, which rolls its transaction back.
CollectGarbage ==
    /\ leaked
    /\ leaked' = FALSE
    /\ UNCHANGED <<today, thinners, materials, material_factor, stock_ledger, stocktake, call, last, scenario, catalog, report>>

DeleteMaterial(material_code) ==
    LET res == delete_material(materials, leaked, material_code)
    IN  /\ materials' = res.materials
        /\ material_factor' = [m \in res.materials |-> material_factor[m]]
        /\ last' = CallRecord("delete", material_code, Zero, Zero, res.err, NoRead)
        /\ scenario' = 0
        /\ report' = NoReport
        /\ UNCHANGED <<today, thinners, stock_ledger, stocktake, leaked, call, catalog>>

\* integrity_check_stock(): reads on a connection of its own; a read does not wait for the
\* lock an abandoned write transaction holds
IntegrityCheckStock ==
    /\ report' = [shown |-> "integrity", rows |-> integrity_check_stock(stock_ledger)]
    /\ last' = CallRecord("integrity", "", Zero, Zero, "ok", NoRead)
    /\ scenario' = 0
    /\ UNCHANGED <<today, thinners, materials, material_factor, stock_ledger, stocktake, leaked, call, catalog>>

\* Stock On Hand page: get_stock_on_hand(), a read
GetStockOnHand ==
    /\ report' = [shown |-> "stock_on_hand", rows |-> get_stock_on_hand(stock_ledger)]
    /\ last' = CallRecord("stock_on_hand", "", Zero, Zero, "ok", NoRead)
    /\ scenario' = 0
    /\ UNCHANGED <<today, thinners, materials, material_factor, stock_ledger, stocktake, leaked, call, catalog>>

\* Ledger (All Movements) page: the rows in one of the orders the query allows
LedgerPage ==
    /\ \E rows \in ledger_page(stock_ledger) : report' = [shown |-> "ledger", rows |-> rows]
    /\ last' = CallRecord("ledger", "", Zero, Zero, "ok", NoRead)
    /\ scenario' = 0
    /\ UNCHANGED <<today, thinners, materials, material_factor, stock_ledger, stocktake, leaked, call, catalog>>

\* The system clock passes midnight
Midnight ==
    /\ today' = today + 1
    /\ UNCHANGED <<thinners, materials, material_factor, stock_ledger, stocktake, leaked, call, last, scenario, catalog, report>>

\* save_product: INSERT OR REPLACE INTO products, inside `with get_conn()`
SaveProduct(product_code) ==
    /\ products' = IF leaked THEN products ELSE products \cup {product_code}
    /\ last' = CallRecord("save_product", product_code, Zero, Zero,
                          IF leaked THEN "OperationalError" ELSE "ok", NoRead)
    /\ scenario' = 0
    /\ report' = NoReport
    /\ UNCHANGED <<today, thinners, materials, material_factor, formulas, formula_seq, stock_ledger, stocktake, leaked, call>>

\* Products page, Delete product: delete_product, then "Product deleted"
DeleteProduct(product_code) ==
    LET res == delete_product(products, formulas, leaked, product_code)
    IN  /\ products' = res.products
        /\ last' = CallRecord("delete_product", product_code, Zero, Zero, res.err, NoRead)
        /\ scenario' = 0
        /\ report' = IF res.err = "ok" THEN [shown |-> "success", message |-> "Product deleted"]
                      ELSE [shown |-> "exception", message |-> res.err]
        /\ UNCHANGED <<today, thinners, materials, material_factor, formulas, formula_seq, stock_ledger,
                       stocktake, leaked, call>>

\* A call on the formula table ends with outcome `res`
FinishCatalog(op, product_code, material_code, qty, res) ==
    /\ formulas' = res.formulas
    /\ formula_seq' = res.formula_seq
    /\ last' = [CallRecord(op, material_code, qty, Zero, res.err, NoRead) EXCEPT !.repeat = FALSE]
    /\ scenario' = 0
    /\ report' = NoReport
    /\ UNCHANGED <<today, thinners, materials, material_factor, products, stock_ledger, stocktake, leaked>>

AddFormulaLine(product_code, material_code, qty) ==
    /\ FinishCatalog("add_formula_line", product_code, material_code, qty,
                     add_formula_line(formulas, formula_seq, leaked, products, materials,
                                      product_code, material_code, qty,
                                      formula_line_exists(formulas, product_code, material_code)))
    /\ UNCHANGED call

SetFormula(product_code, rows) ==
    /\ FinishCatalog("set_formula", product_code, "", Zero,
                     set_formula(formulas, formula_seq, leaked, products, materials, product_code, rows))
    /\ UNCHANGED call

DeleteFormulaLine(formula_id) ==
    /\ FinishCatalog("delete_formula_line", "", "", Zero,
                     delete_formula_line(formulas, formula_seq, leaked, formula_id))
    /\ UNCHANGED call

\* Batches page, button POST Batch Consumption: shown for a product of the catalog whose
\* formula has lines
PostBatchConsumption(product_code, multiplier) ==
    /\ product_code \in products
    /\ formula_lines(formulas, materials, product_code) # <<>>
    /\ \E f \in Orderings(formula_lines(formulas, materials, product_code)) :
          LET lines == [i \in DOMAIN f |-> formula_lines(formulas, materials, product_code)[f[i]]]
              res == post_batch(stock_ledger, stocktake, leaked, materials, lines, multiplier, 0)
          IN  /\ stock_ledger' = res.ledger
              /\ report' = batch_report(res)
              /\ last' = CallRecord("batch", product_code, multiplier, Zero, res.err, NoRead)
    /\ scenario' = 0
    /\ UNCHANGED <<today, thinners, materials, material_factor, catalog, stocktake, leaked, call>>

\* A call on the thinner tables ends with outcome `res`
FinishThinner(op, thinner_code, qty, res) ==
    /\ stock_ledger' = res.ledger
    /\ thinner_recipes' = res.thinner_recipes
    /\ thinner_sales' = res.thinner_sales
    /\ last' = CallRecord(op, thinner_code, qty, Zero, res.err, NoRead)
    /\ scenario' = 0
    /\ report' = NoReport
    /\ UNCHANGED <<today, materials, material_factor, catalog, stocktake, leaked>>

\* Thinners page, Save recipe
UpsertThinnerRecipe(thinner_code, lines) ==
    /\ FinishThinner("upsert_thinner_recipe", thinner_code, Zero,
                     upsert_thinner_recipe(stock_ledger, thinner_recipes, thinner_sales, leaked,
                                           thinner_code, lines))
    /\ UNCHANGED call

\* Thinners page, Save sale + deduct stock: the date input's default is the day of the clock
RecordThinnerSale(thinner_code, qty_sold) ==
    /\ FinishThinner("thinner_sale", thinner_code, qty_sold,
                     record_thinner_sale_and_deduct_stock(stock_ledger, thinner_recipes, thinner_sales, leaked,
                                                          materials, IsoDate(today, 0), thinner_code, qty_sold,
                                                          read_recipe(thinner_recipes, material_factor,
                                                                      thinner_code)))
    /\ UNCHANGED call

\* delete_thinner_recipe_line(thinner_code, material_code)
DeleteThinnerRecipeLine(thinner_code, material_code) ==
    /\ FinishThinner("delete_thinner_recipe_line", thinner_code, Zero,
                     delete_thinner_recipe_line(stock_ledger, thinner_recipes, thinner_sales, leaked,
                                                thinner_code, material_code))
    /\ UNCHANGED call

\* calculate_batch_cost(product_code, batch_size): reads only, on connections of its own
CalculateBatchCost(product_code, batch_size) ==
    /\ report' = [shown |-> "batch_cost",
                  total |-> calculate_batch_cost(formulas, stock_ledger, product_code, batch_size)]
    /\ last' = CallRecord("batch_cost", product_code, batch_size, Zero, "ok", NoRead)
    /\ scenario' = 0
    /\ UNCHANGED <<today, thinners, materials, material_factor, catalog, stock_ledger, stocktake, leaked, call>>

Next ==
    \/ \E m \in MaterialCodes, f \in Factors : UpsertMaterial(m, R(f))
    \/ \E m \in MaterialCodes, q \in PurchaseQtys, c \in PurchaseCosts :
            ReceivePurchase(m, R(q), R(c)) /\ Len(stock_ledger') <= MaxLedger
    \/ \E m \in MaterialCodes, q \in IssueQtys :
            IssueStock(m, R(q)) /\ Len(stock_ledger') <= MaxLedger
    \/ \E m \in MaterialCodes, x \in CountedQtys :
            PostStocktake(m, R(x)) /\ Len(stock_ledger') <= MaxLedger
    \/ \E m \in MaterialCodes, d \in AdjustDeltas, c \in AdjustCosts :
            PostStockAdjustment(m, R(d), R(c)) /\ Len(stock_ledger') <= MaxLedger
    \/ CollectGarbage

Spec == Init /\ [][Next]_vars

\* The calls of the spec's scenario, with its quantities, in any order and on any material
ScenarioNext ==
    \/ \E m \in MaterialCodes, f \in Factors : UpsertMaterial(m, R(f))
    \/ \E m \in MaterialCodes :
            ReceivePurchase(m, R(PigRed.purchase_qty), R(PigRed.purchase_cost)) /\ Len(stock_ledger') <= MaxLedger
    \/ \E m \in MaterialCodes :
            IssueStock(m, R(PigRed.issue_qty)) /\ Len(stock_ledger') <= MaxLedger
    \/ \E m \in MaterialCodes :
            PostStocktake(m, R(PigRed.counted_qty)) /\ Len(stock_ledger') <= MaxLedger
    \/ \E m \in MaterialCodes, c \in AdjustCosts :
            PostStockAdjustment(m, R(PigRed.adjust_delta), R(c)) /\ Len(stock_ledger') <= MaxLedger
    \/ CollectGarbage

ScenarioSpec == Init /\ [][ScenarioNext]_vars

\* Every call that can reach the ledger, with every kind of argument, one call at a time
LedgerNext ==
    \/ \E m \in LedgerCodes, f \in Factors : UpsertMaterial(m, R(f))
    \/ \E m \in LedgerCodes : DeleteMaterial(m)
    \/ \E m \in LedgerCodes, q \in LedgerQtys, c \in LedgerCosts :
            ReceivePurchase(m, R(q), R(c)) /\ Len(stock_ledger') <= LedgerMaxLedger
    \/ \E m \in LedgerCodes, q \in LedgerQtys :
            IssueStock(m, R(q)) /\ Len(stock_ledger') <= LedgerMaxLedger
    \/ \E m \in LedgerCodes, x \in LedgerQtys :
            PostStocktake(m, R(x)) /\ Len(stock_ledger') <= LedgerMaxLedger
    \/ \E m \in LedgerCodes, d \in LedgerDeltas, c \in LedgerCosts :
            PostStockAdjustment(m, d, R(c)) /\ Len(stock_ledger') <= LedgerMaxLedger
    \/ IntegrityCheckStock
    \/ CollectGarbage

LedgerSpec == Init /\ [][LedgerNext]_vars

\* The pages that read the ledger, after postings of every kind on two materials and days
ViewNext ==
    \/ \E m \in MaterialCodes, f \in Factors : UpsertMaterial(m, R(f))
    \/ \E m \in MaterialCodes, q \in ViewQtys, c \in ViewCosts :
            ReceivePurchase(m, R(q), R(c)) /\ Len(stock_ledger') <= ViewMaxLedger
    \/ \E m \in MaterialCodes, q \in ViewQtys :
            IssueStock(m, R(q)) /\ Len(stock_ledger') <= ViewMaxLedger
    \/ \E m \in MaterialCodes, x \in ViewQtys :
            PostStocktake(m, R(x)) /\ Len(stock_ledger') <= ViewMaxLedger
    \/ \E m \in MaterialCodes, d \in ViewQtys, c \in ViewCosts :
            PostStockAdjustment(m, R(d), R(c)) /\ Len(stock_ledger') <= ViewMaxLedger
    \/ GetStockOnHand
    \/ LedgerPage
    \/ Midnight /\ today' <= MaxDay
    \/ CollectGarbage

ViewSpec == Init /\ [][ViewNext]_vars

\* The rows a caller can hand to set_formula
FormulaRowInputs ==
    UNION {[1..n -> [material_code : CatCodes, qty : {R(q) : q \in FormulaQtys}]] : n \in 0..MaxFormulaRows}

\* The calls on the catalog, with manual adjustments to put stock behind the formula lines
CatalogNext ==
    \/ \E m \in CatCodes, f \in Factors : UpsertMaterial(m, R(f))
    \/ \E m \in CatCodes : DeleteMaterial(m)
    \/ \E p \in ProductCodes : SaveProduct(p)
    \/ \E p \in ProductCodes : DeleteProduct(p)
    \/ \E p \in ProductCodes, m \in CatCodes, q \in FormulaQtys :
            AddFormulaLine(p, m, R(q)) /\ formula_seq' <= MaxFormulaId
    \/ \E p \in ProductCodes, rows \in FormulaRowInputs :
            SetFormula(p, rows) /\ formula_seq' <= MaxFormulaId
    \/ \E id \in 1..MaxFormulaId : DeleteFormulaLine(id)
    \/ \E m \in CatCodes, d \in CatDeltas, c \in CatCosts :
            PostStockAdjustment(m, R(d), R(c)) /\ Len(stock_ledger') <= CatMaxLedger
    \/ \E p \in ProductCodes, k \in BatchMultipliers :
            PostBatchConsumption(p, R(k)) /\ Len(stock_ledger') <= CatMaxLedger
    \/ \E p \in ProductCodes, k \in BatchSizes : CalculateBatchCost(p, R(k))
    \/ CollectGarbage

CatalogSpec == Init /\ [][CatalogNext]_vars

\* The lines a caller can hand to upsert_thinner_recipe
RecipeInputs ==
    UNION {[1..n -> [material_code : MaterialCodes, qty_issue : {R(q) : q \in RecipeQtys}]] :
             n \in 0..MaxRecipeLines}

\* The calls of the Thinners page, with manual adjustments to put stock behind the recipes
ThinnerNext ==
    \/ \E m \in MaterialCodes, f \in ThinnerFactors : UpsertMaterial(m, f)
    \/ \E m \in MaterialCodes, d \in ThinnerDeltas, c \in ThinnerCosts :
            PostStockAdjustment(m, R(d), R(c)) /\ Len(stock_ledger') <= ThinnerMaxLedger
    \/ \E t \in ThinnerCodes, lines \in RecipeInputs : UpsertThinnerRecipe(t, lines)
    \/ \E t \in ThinnerCodes, m \in MaterialCodes : DeleteThinnerRecipeLine(t, m)
    \/ \E t \in ThinnerCodes, s \in SaleQtys :
            /\ RecordThinnerSale(t, R(s))
            /\ Len(stock_ledger') <= ThinnerMaxLedger
            /\ Len(thinner_sales') <= MaxSales
    \/ CollectGarbage

ThinnerSpec == Init /\ [][ThinnerNext]_vars

----------------------------------------------------------------------------
(* Concurrent callers.  A call that reads the ledger and then writes it does so in two *)
(* steps: the read runs on its own connection (or outside any transaction), so other   *)
(* callers' statements can commit between the two.                                     *)

Pending(op, material_code, qty, cost, read) ==
    [op |-> op, material_code |-> material_code, qty |-> qty, cost |-> cost, read |-> read]

\* issue_stock up to and including `current_qty, avg_cost = _current_stock(material_code)`
BeginIssue(c, material_code, qty_stock) ==
    /\ call[c] = Idle
    /\ call' = [call EXCEPT ![c] = Pending("issue", material_code, qty_stock, Zero,
                                           current_stock(stock_ledger, material_code))]
    /\ UNCHANGED <<today, thinners, materials, material_factor, stock_ledger, stocktake, leaked, last, scenario, catalog, report>>

\* issue_stock from the stock check to the end
EndIssue(c) ==
    /\ call[c].op = "issue"
    /\ Finish("issue", call[c].material_code, call[c].qty, Zero,
              issue_stock(stock_ledger, stocktake, leaked, materials, call[c].material_code, call[c].qty,
                          call[c].read, "BATCH"),
              call[c].read)
    /\ call' = [call EXCEPT ![c] = Idle]

\* post_stocktake up to and including `system_qty, avg_cost = _current_stock(material_code)`
BeginStocktake(c, material_code, counted_qty_stock) ==
    /\ call[c] = Idle
    /\ call' = [call EXCEPT ![c] = Pending("stocktake", material_code, counted_qty_stock, Zero,
                                           current_stock(stock_ledger, material_code))]
    /\ UNCHANGED <<today, thinners, materials, material_factor, stock_ledger, stocktake, leaked, last, scenario, catalog, report>>

\* post_stocktake from the stocktake INSERT to the end
EndStocktake(c) ==
    /\ call[c].op = "stocktake"
    /\ Finish("stocktake", call[c].material_code, call[c].qty, Zero,
              post_stocktake(stock_ledger, stocktake, leaked, materials, call[c].material_code, call[c].qty,
                             call[c].read),
              call[c].read)
    /\ call' = [call EXCEPT ![c] = Idle]

\* post_stock_adjustment up to and including the SELECT of the latest row; a rejected
\* argument ends the call before that
BeginAdjustment(c, code, qty_delta, cost_per_uom) ==
    /\ call[c] = Idle
    /\ IF adjustment_rejected(qty_delta)
       THEN /\ Finish("adjust", code, qty_delta, cost_per_uom,
                      post_stock_adjustment(stock_ledger, stocktake, leaked, materials, code, qty_delta,
                                            cost_per_uom, NoRead, "MANUAL"),
                      NoRead)
            /\ UNCHANGED call
       ELSE /\ call' = [call EXCEPT ![c] = Pending("adjust", code, qty_delta, cost_per_uom,
                                                   latest_balance(stock_ledger, code))]
            /\ UNCHANGED <<today, thinners, materials, material_factor, stock_ledger, stocktake, leaked, last, scenario, catalog, report>>

\* post_stock_adjustment from the computation of the new row to conn.commit()
EndAdjustment(c) ==
    /\ call[c].op = "adjust"
    /\ Finish("adjust", call[c].material_code, call[c].qty, call[c].cost,
              post_stock_adjustment(stock_ledger, stocktake, leaked, materials, call[c].material_code,
                                    call[c].qty, call[c].cost, call[c].read, "MANUAL"),
              call[c].read)
    /\ call' = [call EXCEPT ![c] = Idle]

ConcNext ==
    \/ \E m \in ConcCodes, f \in Factors : UpsertMaterial(m, R(f))
    \/ \E m \in ConcCodes, q \in ConcQtys, k \in PurchaseCosts :
            ReceivePurchase(m, R(q), R(k)) /\ Len(stock_ledger') <= ConcMaxLedger
    \/ \E c \in Callers, m \in ConcCodes, q \in ConcQtys : BeginIssue(c, m, R(q))
    \/ \E c \in Callers : EndIssue(c) /\ Len(stock_ledger') <= ConcMaxLedger
    \/ \E c \in Callers, m \in ConcCodes, x \in ConcQtys : BeginStocktake(c, m, R(x))
    \/ \E c \in Callers : EndStocktake(c) /\ Len(stock_ledger') <= ConcMaxLedger
    \/ \E c \in Callers, m \in ConcCodes, d \in ConcDeltas, k \in AdjustCosts :
            BeginAdjustment(c, m, R(d), R(k))
    \/ \E c \in Callers : EndAdjustment(c) /\ Len(stock_ledger') <= ConcMaxLedger
    \/ CollectGarbage

ConcSpec == Init /\ [][ConcNext]_vars

----------------------------------------------------------------------------
(* Concurrent sessions on the catalog pages.  add_formula_line's SELECT runs before its  *)
(* transaction is open; the Batches page and calculate_batch_cost read the formula on    *)
(* one connection and each line's balance on another; issue_stock posts on a third.      *)

\* add_formula_line up to and including `exists = c.fetchone()[0]`
BeginAddFormulaLine(c, product_code, material_code, qty) ==
    /\ call[c] = Idle
    /\ call' = [call EXCEPT ![c] = [op |-> "add_formula_line", product_code |-> product_code,
                                    material_code |-> material_code, qty |-> qty,
                                    exists |-> formula_line_exists(formulas, product_code, material_code)]]
    /\ UNCHANGED <<today, thinners, materials, material_factor, stock_ledger, stocktake, leaked, last, scenario,
                   catalog, report>>

\* add_formula_line from `if exists` to conn.commit()
EndAddFormulaLine(c) ==
    /\ call[c].op = "add_formula_line"
    /\ FinishCatalog("add_formula_line", call[c].product_code, call[c].material_code, call[c].qty,
                     add_formula_line(formulas, formula_seq, leaked, products, materials, call[c].product_code,
                                      call[c].material_code, call[c].qty, call[c].exists))
    /\ call' = [call EXCEPT ![c] = Idle]

\* Batches page: the product is chosen, _get_formula_lines has returned the lines and the
\* button POST Batch Consumption is pressed
BeginBatchConsumption(c, product_code, multiplier) ==
    /\ call[c] = Idle
    /\ product_code \in products
    /\ formula_lines(formulas, materials, product_code) # <<>>
    /\ \E f \in Orderings(formula_lines(formulas, materials, product_code)) :
          call' = [call EXCEPT ![c] =
                      [op |-> "batch", product_code |-> product_code, multiplier |-> multiplier,
                       lines |-> [i \in DOMAIN f |-> formula_lines(formulas, materials, product_code)[f[i]]],
                       posted |-> 0, checked |-> FALSE, read |-> NoRead]]
    /\ UNCHANGED <<today, thinners, materials, material_factor, stock_ledger, stocktake, leaked, last, scenario,
                   catalog, report>>

\* The loop of the Batches page at its next line: `continue` when q_issue <= 0, else
\* issue_stock up to and including `current_qty, avg_cost = _current_stock(material_code)`
BatchReadBalance(c) ==
    /\ call[c].op = "batch"
    /\ call[c].lines # <<>>
    /\ ~call[c].checked
    /\ call' = [call EXCEPT ![c] =
                   IF ~RLt(Zero, RMul(call[c].lines[1].qty, call[c].multiplier))
                   THEN [call[c] EXCEPT !.lines = Tail(call[c].lines)]
                   ELSE [call[c] EXCEPT !.checked = TRUE,
                                        !.read = current_stock(stock_ledger, call[c].lines[1].material_code)]]
    /\ UNCHANGED <<today, thinners, materials, material_factor, stock_ledger, stocktake, leaked, last, scenario,
                   catalog, report>>

\* issue_stock for the line from the stock check to the end; its exception leaves the loop
\* and the page, else posted += 1
BatchPostLine(c) ==
    /\ call[c].op = "batch"
    /\ call[c].checked
    /\ LET res == issue_stock(stock_ledger, stocktake, leaked, materials, call[c].lines[1].material_code,
                              RMul(call[c].lines[1].qty, call[c].multiplier), call[c].read, "BATCH")
       IN  /\ stock_ledger' = res.ledger
           /\ IF res.err # "ok"
              THEN /\ report' = batch_report([err |-> res.err, ledger |-> res.ledger, posted |-> call[c].posted])
                   /\ last' = CallRecord("batch", call[c].product_code, call[c].multiplier, Zero, res.err, NoRead)
                   /\ scenario' = 0
                   /\ call' = [call EXCEPT ![c] = Idle]
              ELSE /\ call' = [call EXCEPT ![c] = [call[c] EXCEPT !.lines = Tail(call[c].lines),
                                                                  !.posted = call[c].posted + 1,
                                                                  !.checked = FALSE, !.read = NoRead]]
                   /\ UNCHANGED <<last, scenario, report>>
    /\ UNCHANGED <<today, thinners, materials, material_factor, catalog, stocktake, leaked>>

\* The loop has run out of lines: st.success with the count
EndBatchConsumption(c) ==
    /\ call[c].op = "batch"
    /\ call[c].lines = <<>>
    /\ report' = batch_report([err |-> "ok", ledger |-> stock_ledger, posted |-> call[c].posted])
    /\ last' = CallRecord("batch", call[c].product_code, call[c].multiplier, Zero, "ok", NoRead)
    /\ scenario' = 0
    /\ call' = [call EXCEPT ![c] = Idle]
    /\ UNCHANGED <<today, thinners, materials, material_factor, catalog, stock_ledger, stocktake, leaked>>

\* calculate_batch_cost up to and including the read of the product's formula rows
BeginBatchCost(c, product_code, batch_size) ==
    /\ call[c] = Idle
    /\ call' = [call EXCEPT ![c] =
                   [op |-> "batch_cost", product_code |-> product_code, batch_size |-> batch_size,
                    lines |-> SelectSeq(formulas, LAMBDA r : r.product_code = product_code),
                    total_cost |-> Zero]]
    /\ UNCHANGED <<today, thinners, materials, material_factor, stock_ledger, stocktake, leaked, last, scenario,
                   catalog, report>>

\* One pass of calculate_batch_cost's loop: _current_stock of the row's material on a
\* connection of its own, total_cost += qty_needed * avg_cost
BatchCostLine(c) ==
    /\ call[c].op = "batch_cost"
    /\ call[c].lines # <<>>
    /\ call' = [call EXCEPT ![c] =
                   [call[c] EXCEPT !.lines = Tail(call[c].lines),
                                   !.total_cost = batch_cost_loop(<<call[c].lines[1]>>, stock_ledger,
                                                                  call[c].batch_size, call[c].total_cost)]]
    /\ UNCHANGED <<today, thinners, materials, material_factor, stock_ledger, stocktake, leaked, last, scenario,
                   catalog, report>>

\* calculate_batch_cost: return total_cost
EndBatchCost(c) ==
    /\ call[c].op = "batch_cost"
    /\ call[c].lines = <<>>
    /\ report' = [shown |-> "batch_cost", total |-> call[c].total_cost]
    /\ last' = CallRecord("batch_cost", call[c].product_code, call[c].batch_size, Zero, "ok", NoRead)
    /\ scenario' = 0
    /\ call' = [call EXCEPT ![c] = Idle]
    /\ UNCHANGED <<today, thinners, materials, material_factor, catalog, stock_ledger, stocktake, leaked>>

\* Two sessions on the catalog pages, with what another session can commit in between
CatalogConcNext ==
    \/ \E m \in CatCodes, f \in Factors : UpsertMaterial(m, R(f))
    \/ \E m \in CatCodes : DeleteMaterial(m)
    \/ \E p \in ProductCodes : SaveProduct(p)
    \/ \E p \in ProductCodes : DeleteProduct(p)
    \/ \E p \in ProductCodes, rows \in ConcFormulaRowInputs :
            SetFormula(p, rows) /\ formula_seq' <= ConcMaxFormulaId
    \/ \E id \in 1..ConcMaxFormulaId : DeleteFormulaLine(id)
    \/ \E c \in Callers, m \in CatCodes, d \in CatDeltas, k \in CatCosts :
            BeginAdjustment(c, m, R(d), R(k))
    \/ \E c \in Callers : EndAdjustment(c) /\ Len(stock_ledger') <= CatMaxLedger
    \/ \E c \in Callers, p \in ProductCodes, m \in CatCodes, q \in ConcFormulaQtys :
            BeginAddFormulaLine(c, p, m, R(q))
    \/ \E c \in Callers : EndAddFormulaLine(c) /\ formula_seq' <= ConcMaxFormulaId
    \/ \E c \in Callers, p \in ProductCodes, k \in BatchMultipliers : BeginBatchConsumption(c, p, R(k))
    \/ \E c \in Callers : BatchReadBalance(c)
    \/ \E c \in Callers : BatchPostLine(c) /\ Len(stock_ledger') <= CatMaxLedger
    \/ \E c \in Callers : EndBatchConsumption(c)
    \/ \E c \in Callers, p \in ProductCodes, k \in BatchSizes : BeginBatchCost(c, p, R(k))
    \/ \E c \in Callers : BatchCostLine(c)
    \/ \E c \in Callers : EndBatchCost(c)
    \/ CollectGarbage

CatalogConcSpec == Init /\ [][CatalogConcNext]_vars

----------------------------------------------------------------------------
(* Concurrent sessions on the Thinners page.  record_thinner_sale_and_deduct_stock reads *)
(* the recipe on one connection and writes the sale on another.                          *)

\* record_thinner_sale_and_deduct_stock up to and including the read of the recipe
BeginThinnerSale(c, thinner_code, qty_sold) ==
    /\ call[c] = Idle
    /\ call' = [call EXCEPT ![c] = [op |-> "thinner_sale", thinner_code |-> thinner_code, qty_sold |-> qty_sold,
                                    sale_date |-> IsoDate(today, 0),
                                    recipe |-> read_recipe(thinner_recipes, material_factor, thinner_code)]]
    /\ UNCHANGED <<today, thinners, materials, material_factor, stock_ledger, stocktake, leaked, last, scenario,
                   catalog, report>>

\* record_thinner_sale_and_deduct_stock from `if recipe.empty` to conn.commit()
EndThinnerSale(c) ==
    /\ call[c].op = "thinner_sale"
    /\ FinishThinner("thinner_sale", call[c].thinner_code, call[c].qty_sold,
                     record_thinner_sale_and_deduct_stock(stock_ledger, thinner_recipes, thinner_sales, leaked,
                                                          materials, call[c].sale_date, call[c].thinner_code,
                                                          call[c].qty_sold, call[c].recipe))
    /\ call' = [call EXCEPT ![c] = Idle]

\* The lines a session hands to upsert_thinner_recipe while another one is selling
ConcRecipeInputs ==
    UNION {[1..n -> [material_code : ConcCodes, qty_issue : {R(q) : q \in RecipeQtys}]] : n \in 0..1}

\* Two sessions on the Thinners page
ThinnerConcNext ==
    \/ \E m \in ConcCodes, f \in ThinnerFactors : UpsertMaterial(m, f)
    \/ \E m \in ConcCodes : DeleteMaterial(m)
    \/ \E c \in Callers, m \in ConcCodes, d \in ThinnerDeltas, k \in ThinnerCosts :
            BeginAdjustment(c, m, R(d), R(k))
    \/ \E c \in Callers : EndAdjustment(c) /\ Len(stock_ledger') <= ThinnerConcMaxLedger
    \/ \E t \in ThinnerCodes, lines \in ConcRecipeInputs : UpsertThinnerRecipe(t, lines)
    \/ \E t \in ThinnerCodes, m \in ConcCodes : DeleteThinnerRecipeLine(t, m)
    \/ \E c \in Callers, t \in ThinnerCodes, s \in SaleQtys : BeginThinnerSale(c, t, R(s))
    \/ \E c \in Callers :
            /\ EndThinnerSale(c)
            /\ Len(stock_ledger') <= ThinnerConcMaxLedger
            /\ Len(thinner_sales') <= MaxSales
    \/ CollectGarbage

ThinnerConcSpec == Init /\ [][ThinnerConcNext]_vars

----------------------------------------------------------------------------
(* The spec's Material Balance (section 3), computed from the entries' movements *)

RECURSIVE SumQty(_, _)
\* The sum of the signed quantity changes (column qty) of a material's entries
SumQty(led, material_code) ==
    IF led = <<>> THEN Zero
    ELSE LET r == led[Len(led)]
         IN  RAdd(SumQty(SubSeq(led, 1, Len(led) - 1), material_code),
                  IF r.material_code = material_code THEN r.qty ELSE Zero)

\* On-hand quantity: the sum of the signed quantities of all the material's entries
OnHand(led, material_code) == SumQty(led, material_code)

\* Average unit cost: sum of signed total costs / on-hand quantity when on-hand # 0, else 0
LedgerAverage(led, material_code) ==
    IF OnHand(led, material_code) # Zero
    THEN RDiv(SumTotalCost(led, material_code), OnHand(led, material_code))
    ELSE Zero

\* The ledger is `before` plus exactly one entry of this kind, movement and material
AppendedOne(before, ref_type, material_code, qty) ==
    /\ Len(stock_ledger) = Len(before) + 1
    /\ SubSeq(stock_ledger, 1, Len(before)) = before
    /\ stock_ledger[Len(stock_ledger)].ref_type = ref_type
    /\ stock_ledger[Len(stock_ledger)].material_code = material_code
    /\ stock_ledger[Len(stock_ledger)].qty = qty

----------------------------------------------------------------------------
(* C1: after any sequence of postings the balance read of every material returns *)
(* the sum of the signed quantity changes of its entries, and as average cost    *)
(* the sum of their total costs divided by that quantity (0 when it is 0).       *)
C1_BalanceIsSumOfEntries ==
    \A m \in MaterialCodes :
        /\ current_stock(stock_ledger, m).qty = OnHand(stock_ledger, m)
        /\ current_stock(stock_ledger, m).avg_cost = LedgerAverage(stock_ledger, m)

(* C2: among concurrent issue calls on a material every call either commits its *)
(* entry or fails with InsufficientStock, and an issue that commits never takes *)
(* the material's on-hand quantity from at least 0 to below 0.                  *)
C2_ConcurrentIssuesNeverOverdraw ==
    (last.op = "issue" /\ last.material_code \in materials) =>
        /\ last.result \in {"ok", "InsufficientStock"}
        /\ (last.result = "ok" /\ ~RLt(OnHand(last.ledger_before, last.material_code), Zero))
                => ~RLt(OnHand(stock_ledger, last.material_code), Zero)

(* C4: an issue fails with InsufficientStock exactly when its quantity exceeds  *)
(* the material's on-hand quantity at the call, and an issue that fails leaves  *)
(* the ledger as it was.                                                        *)
C4_IssueFailsExactlyWhenShort ==
    last.op = "issue" =>
        /\ (last.result = "InsufficientStock")
                <=> RLt(OnHand(last.ledger_before, last.material_code), last.qty)
        /\ (last.result # "ok" => stock_ledger = last.ledger_before)

(* C6: the spec's scenario: on a material without entries, receive 100 at total *)
(* cost 500 then issue 40 gives balance 60 at average cost 5 and ledger value   *)
(* 300; adjust -10 then gives 50 at average cost 5; stocktake 45 then records   *)
(* variance -5, appends one stocktake entry of -5 at unit cost 5 and leaves     *)
(* balance 45.                                                                  *)
C6_Scenario ==
    LET balance == current_stock(stock_ledger, last.material_code)
    IN  /\ scenario = 2 => /\ balance = [qty |-> R(60), avg_cost |-> R(5)]
                           /\ SumTotalCost(stock_ledger, last.material_code) = R(300)
        /\ scenario = 3 => balance = [qty |-> R(50), avg_cost |-> R(5)]
        /\ scenario = 4 => /\ balance.qty = R(45)
                           /\ Len(stocktake) = Len(last.stocktake_before) + 1
                           /\ stocktake[Len(stocktake)].variance = R(-5)
                           /\ AppendedOne(last.ledger_before, "STOCKTAKE", last.material_code, R(-5))
                           /\ stock_ledger[Len(stock_ledger)].cost_per_stock = R(5)

(* C8: reconciling a material with counted quantity X when its system quantity  *)
(* is Y # X appends one stocktake variance entry of X - Y; the same reconcile   *)
(* made again right afterwards finds system quantity X and appends nothing.     *)
C8_StocktakeRoundTrip ==
    (last.op = "stocktake" /\ last.material_code \in materials) =>
        /\ last.qty # last.read.qty
                => AppendedOne(last.ledger_before, "STOCKTAKE", last.material_code,
                               RSub(last.qty, last.read.qty))
        /\ last.repeat => (last.read.qty = last.qty /\ stock_ledger = last.ledger_before)

(* C9: each reconcile creates exactly one stocktake record with variance =      *)
(* counted - system quantity, leaves the earlier records as they were, and      *)
(* appends exactly one stocktake entry of that variance when it is not 0 and no *)
(* entry when it is 0.                                                          *)
C9_OneRecordPerReconcile ==
    (last.op = "stocktake" /\ last.material_code \in materials) =>
        /\ Len(stocktake) = Len(last.stocktake_before) + 1
        /\ SubSeq(stocktake, 1, Len(last.stocktake_before)) = last.stocktake_before
        /\ stocktake[Len(stocktake)].counted_qty_stock = last.qty
        /\ stocktake[Len(stocktake)].variance = RSub(last.qty, stocktake[Len(stocktake)].system_qty_stock)
        /\ IF stocktake[Len(stocktake)].variance # Zero
           THEN AppendedOne(last.ledger_before, "STOCKTAKE", last.material_code,
                            stocktake[Len(stocktake)].variance)
           ELSE stock_ledger = last.ledger_before

(* C10: a manual adjustment with negative quantity is never rejected for lack   *)
(* of stock, and the entry it appends is costed at the material's average cost  *)
(* before the adjustment: ledger sum of total costs / on-hand quantity.         *)
C10_DecreaseCostedAtLedgerAverage ==
    (last.op = "adjust" /\ RLt(last.qty, Zero)) =>
        /\ last.result # "InsufficientStock"
        /\ last.result = "ok" =>
                /\ AppendedOne(last.ledger_before, "MANUAL", last.material_code, last.qty)
                /\ stock_ledger[Len(stock_ledger)].total_cost
                        = RMul(last.qty, LedgerAverage(last.ledger_before, last.material_code))

(* C11: after a manual adjustment with positive quantity d at unit cost c on a   *)
(* material whose balance read before the call is (q, a), the balance read gives *)
(* average cost (q*a + d*c) / (q + d), or 0 when q + d is approximately 0.       *)
C11_IncreaseGivesWeightedAverage ==
    (last.op = "adjust" /\ last.result = "ok" /\ RLt(Zero, last.qty)) =>
        LET before == current_stock(last.ledger_before, last.material_code)
            new_qty == RAdd(before.qty, last.qty)
        IN  current_stock(stock_ledger, last.material_code).avg_cost
                = IF near_zero(new_qty) THEN Zero
                  ELSE RDiv(RAdd(RMul(before.qty, before.avg_cost), RMul(last.qty, last.cost)), new_qty)

(* C12: an issue, a manual adjustment or a stocktake that appends an entry with  *)
(* negative quantity and leaves a non-zero quantity on hand leaves the           *)
(* material's average cost, as the balance read gives it, as it was before.      *)
C12_DecreaseKeepsAverage ==
    (/\ last.op \in {"issue", "adjust", "stocktake"}
     /\ last.result = "ok"
     /\ Len(stock_ledger) = Len(last.ledger_before) + 1
     /\ RLt(stock_ledger[Len(stock_ledger)].qty, Zero)
     /\ OnHand(stock_ledger, last.material_code) # Zero
     /\ current_stock(stock_ledger, last.material_code).qty # Zero) =>
        current_stock(stock_ledger, last.material_code).avg_cost
            = current_stock(last.ledger_before, last.material_code).avg_cost

(* C13: no ledger entry has signed quantity 0, and a receive, issue or manual    *)
(* adjustment with quantity 0 fails with InvalidArgument and leaves the ledger   *)
(* as it was.                                                                    *)
C13_ZeroQuantityIsInvalidArgument ==
    /\ \A i \in DOMAIN stock_ledger : stock_ledger[i].qty # Zero
    /\ (last.op \in {"receive", "issue", "adjust"} /\ last.qty = Zero) =>
            (last.result = "InvalidArgument" /\ stock_ledger = last.ledger_before)

(* C14: a receive with quantity <= 0 fails with InvalidArgument and appends no   *)
(* entry, and no purchase entry of the ledger has a quantity <= 0.               *)
C14_ReceiveNeedsPositiveQuantity ==
    /\ \A i \in DOMAIN stock_ledger :
            stock_ledger[i].ref_type = "PURCHASE" => RLt(Zero, stock_ledger[i].qty)
    /\ (last.op = "receive" /\ ~RLt(Zero, last.qty)) =>
            (last.result = "InvalidArgument" /\ stock_ledger = last.ledger_before)

(* C15: the ledger is append-only: every step keeps the entries it finds, in     *)
(* their order and unchanged, and every entry it appends has an id greater than  *)
(* the id of every entry already there.                                          *)
C15_LedgerAppendOnly ==
    [][/\ Len(stock_ledger') >= Len(stock_ledger)
       /\ SubSeq(stock_ledger', 1, Len(stock_ledger)) = stock_ledger
       /\ \A i \in (Len(stock_ledger) + 1)..Len(stock_ledger') :
              \A j \in 1..Len(stock_ledger) : stock_ledger'[i].id > stock_ledger[j].id]_vars

\* Two entries of a material are in the ledger after the material itself was deleted
C15_Witness ==
    /\ last.op = "delete"
    /\ last.result = "ok"
    /\ last.material_code \in last.materials_before
    /\ Len(RowsOf(stock_ledger, last.material_code)) >= 2

(* C17: a receive, issue, manual adjustment or stocktake for a material code     *)
(* that is not in the catalog fails with NotFound and appends no entry.          *)
C17_UnknownMaterialIsNotFound ==
    (/\ last.op \in {"receive", "issue", "adjust", "stocktake"}
     /\ last.material_code \notin last.materials_before) =>
        (last.result = "NotFound" /\ stock_ledger = last.ledger_before)

\* The spec's epsilon of the negative-balance scan: 1e-5
SpecEpsilon == <<1, 100000>>

(* C20: the negative-balance check returns exactly the materials whose on-hand   *)
(* quantity, the sum of the signed quantities of their entries, is below         *)
(* -epsilon, and it leaves the ledger as it was.                                 *)
C20_IntegrityCheckFlagsNegativeOnHand ==
    last.op = "integrity" =>
        /\ {r.code : r \in report.rows}
                = {m \in CodesOf(stock_ledger) : RLt(OnHand(stock_ledger, m), RNeg(SpecEpsilon))}
        /\ stock_ledger = last.ledger_before

(* C16: delete_material on a material of the catalog that has a ledger entry or  *)
(* a formula line fails and leaves the material in the catalog.                  *)
C16_ReferencedMaterialIsKept ==
    (/\ last.op = "delete"
     /\ last.material_code \in last.materials_before
     /\ \/ RowsOf(stock_ledger, last.material_code) # <<>>
        \/ \E i \in DOMAIN formulas : formulas[i].material_code = last.material_code) =>
        (last.result # "ok" /\ last.material_code \in materials)

(* C18: the formula table has at most one line per (product, material) pair and  *)
(* every line has a quantity > 0.                                                *)
C18_FormulaLinesUniqueAndPositive ==
    /\ \A i, j \in DOMAIN formulas :
            (formulas[i].product_code = formulas[j].product_code
             /\ formulas[i].material_code = formulas[j].material_code) => i = j
    /\ \A i \in DOMAIN formulas : RLt(Zero, formulas[i].qty)

(* C19: when a batch posting stops because a line hits InsufficientStock, what   *)
(* it hands back names the lines that were committed and the lines that were     *)
(* never attempted.                                                              *)
C19_BatchFailureReportsLines ==
    (last.op = "batch" /\ last.result = "InsufficientStock") =>
        {"committed", "not_attempted"} \subseteq DOMAIN report

(* C21: the stock-on-hand view is a projection of the ledger: for every material *)
(* it lists, the quantity on hand and the average cost it shows are those of the *)
(* balance read (rounded as the view rounds), and its stock value is quantity    *)
(* times average cost.                                                           *)
C21_ViewIsProjectionOfLedger ==
    last.op = "stock_on_hand" =>
        \A r \in report.rows :
            /\ r.qty_on_hand = RoundTo(current_stock(stock_ledger, r.code).qty, QtyDecimals)
            /\ r.avg_cost = RoundTo(current_stock(stock_ledger, r.code).avg_cost, CostDecimals)
            /\ r.stock_value = RoundSql(RMul(r.qty_on_hand, r.avg_cost), ValueDecimals)

(* C22: the ledger history is returned newest-first: of any two entries in the   *)
(* returned list, the one appended later (greater id) comes first, whichever     *)
(* operations wrote them.                                                        *)
C22_HistoryNewestFirst ==
    last.op = "ledger" =>
        \A i, j \in DOMAIN report.rows : i < j => report.rows[i].id > report.rows[j].id

\* The on-hand quantity the stock-on-hand view reports for a material: 0 for one it does not list
ReportedOnHand(led, material_code) ==
    IF \E r \in get_stock_on_hand(led) : r.code = material_code
    THEN (CHOOSE r \in get_stock_on_hand(led) : r.code = material_code).qty_on_hand
    ELSE Zero

(* C23: manual adjustments are atomic with respect to each other: every          *)
(* adjustment that completes, also while another adjustment on the material is   *)
(* under way, changes the on-hand quantity the engine reports by exactly its own *)
(* quantity, so two concurrent adjustments d1 and d2 change it by d1 + d2.       *)
C23_ConcurrentAdjustmentsAddUp ==
    (last.op = "adjust" /\ last.result = "ok") =>
        ReportedOnHand(stock_ledger, last.material_code)
            = RAdd(ReportedOnHand(last.ledger_before, last.material_code), last.qty)

(* C24: a reconcile stores a stocktake record whose system quantity is the       *)
(* material's on-hand quantity in the ledger right before the variance entry is  *)
(* appended, so that right after it the on-hand quantity is the counted          *)
(* quantity, also when other postings on the material are interleaved with it.   *)
C24_StocktakeSnapshotIsCurrent ==
    (last.op = "stocktake" /\ last.material_code \in materials) =>
        /\ Len(stocktake) = Len(last.stocktake_before) + 1
        /\ stocktake[Len(stocktake)].system_qty_stock = OnHand(last.ledger_before, last.material_code)
        /\ OnHand(stock_ledger, last.material_code) = last.qty

RECURSIVE SumOfLineCosts(_, _)
\* The sum over the formula rows with index in `lines` of quantity x multiplier x the
\* balance read's average cost of the row's material
SumOfLineCosts(lines, multiplier) ==
    IF lines = {} THEN Zero
    ELSE LET i == CHOOSE k \in lines : TRUE
         IN  RAdd(RMul(formulas[i].qty,
                       RMul(multiplier, current_stock(stock_ledger, formulas[i].material_code).avg_cost)),
                  SumOfLineCosts(lines \ {i}, multiplier))

(* C25: the batch cost projection returns the sum over the product's formula     *)
(* lines of line quantity x multiplier x current average cost of the line's      *)
(* material, appends no ledger entry and changes no balance.                     *)
C25_BatchCostIsSumOverLines ==
    last.op = "batch_cost" =>
        /\ report.total = SumOfLineCosts({i \in DOMAIN formulas : formulas[i].product_code = last.material_code},
                                         last.qty)
        /\ stock_ledger = last.ledger_before
        /\ stocktake = last.stocktake_before
        /\ \A m \in CatCodes : current_stock(stock_ledger, m) = current_stock(last.ledger_before, m)

\* A projection for two batches of a product with two lines whose material has an average
\* cost that is not 0
C25_Witness ==
    /\ last.op = "batch_cost"
    /\ last.qty = R(2)
    /\ Cardinality({i \in DOMAIN formulas : formulas[i].product_code = last.material_code
                                             /\ formulas[i].qty # Zero}) = 2
    /\ stock_ledger # <<>>
    /\ report.total # Zero

RECURSIVE ExpectedIssues(_, _, _)
\* The movements a posting of `lines` with `multiplier` on ledger `led` is to append: the
\* lines in formula order, none for a computed quantity of 0, none from the first line on
\* whose quantity exceeds the on-hand quantity its turn finds
ExpectedIssues(led, lines, multiplier) ==
    IF lines = <<>> THEN <<>>
    ELSE LET q == RMul(lines[1].qty, multiplier)
             move == [material_code |-> lines[1].material_code, qty |-> RNeg(q)]
         IN  IF q = Zero THEN ExpectedIssues(led, Tail(lines), multiplier)
             ELSE IF RLt(OnHand(led, lines[1].material_code), q) THEN <<>>
             ELSE <<move>> \o ExpectedIssues(Append(led, move), Tail(lines), multiplier)

(* C26: posting consumption for a formula issues its lines one at a time in      *)
(* formula order; a line whose computed quantity is 0 is skipped without an      *)
(* entry; when a line fails with InsufficientStock the entries of the lines      *)
(* issued before it stay committed and no line after it is issued.               *)
C26_BatchPostsLinesInOrder ==
    last.op = "batch" =>
        LET expected == ExpectedIssues(last.ledger_before,
                                       formula_lines(formulas, materials, last.material_code), last.qty)
        IN  /\ Len(stock_ledger) = Len(last.ledger_before) + Len(expected)
            /\ SubSeq(stock_ledger, 1, Len(last.ledger_before)) = last.ledger_before
            /\ \A i \in DOMAIN expected :
                   /\ stock_ledger[Len(last.ledger_before) + i].material_code = expected[i].material_code
                   /\ stock_ledger[Len(last.ledger_before) + i].qty = expected[i].qty

(* C27: an issue with quantity <= 0 is rejected with InvalidArgument and appends *)
(* nothing, and no issue ever increases the material's on-hand quantity.         *)
C27_IssueNeedsPositiveQuantity ==
    last.op = "issue" =>
        /\ ~RLt(Zero, last.qty) => (last.result = "InvalidArgument" /\ stock_ledger = last.ledger_before)
        /\ ~RLt(OnHand(last.ledger_before, last.material_code), OnHand(stock_ledger, last.material_code))

(* C28: a posting on one material (a receive of a quantity > 0 or a manual       *)
(* adjustment of a quantity # 0, on a material of the catalog, with the database *)
(* free) appends exactly one ledger entry for that material and leaves the       *)
(* on-hand quantity and average cost of every other material, the material      *)
(* catalog and the formula store unchanged.                                      *)
C28_PostingTouchesOneMaterial ==
    [][(/\ last' # last
        /\ last'.op \in {"receive", "adjust"}
        /\ last'.material_code \in materials
        /\ last'.qty # Zero
        /\ last'.op = "receive" => RLt(Zero, last'.qty)
        /\ last'.result # "OperationalError") =>
            /\ Len(stock_ledger') = Len(stock_ledger) + 1
            /\ SubSeq(stock_ledger', 1, Len(stock_ledger)) = stock_ledger
            /\ stock_ledger'[Len(stock_ledger')].material_code = last'.material_code
            /\ \A m \in MaterialCodes \ {last'.material_code} :
                   /\ OnHand(stock_ledger', m) = OnHand(stock_ledger, m)
                   /\ LedgerAverage(stock_ledger', m) = LedgerAverage(stock_ledger, m)
            /\ materials' = materials
            /\ catalog' = catalog]_vars

(* C29: recording a thinner sale of quantity s > 0 for a thinner with a saved    *)
(* recipe, with the database free, commits the sale record and appends, for      *)
(* every recipe line, exactly one ledger entry of signed quantity                *)
(* -(qty_issue x s x issue_to_stock_factor) whose total cost is that quantity    *)
(* times the material's current average cost.                                    *)
C29_ThinnerSaleDeductsRecipe ==
    [][(/\ last' # last
        /\ last'.op = "thinner_sale"
        /\ ~leaked
        /\ RLt(Zero, last'.qty)
        /\ \E r \in thinner_recipes : r.thinner_code = last'.material_code) =>
            LET recipe == read_recipe(thinner_recipes, material_factor, last'.material_code)
                appended == (Len(stock_ledger) + 1)..Len(stock_ledger')
            IN  /\ Len(thinner_sales') = Len(thinner_sales) + 1
                /\ thinner_sales'[Len(thinner_sales')].thinner_code = last'.material_code
                /\ thinner_sales'[Len(thinner_sales')].qty_sold = last'.qty
                /\ SubSeq(stock_ledger', 1, Len(stock_ledger)) = stock_ledger
                /\ Len(stock_ledger') = Len(stock_ledger) + Cardinality(recipe)
                /\ \A r \in recipe :
                       \E i \in appended :
                          /\ stock_ledger'[i].material_code = r.material_code
                          /\ stock_ledger'[i].qty_stock
                                = FNeg(qty_stock_total(r, last'.qty))
                          /\ stock_ledger'[i].total_cost
                                = RMul(stock_ledger'[i].qty_stock,
                                       current_stock(stock_ledger, r.material_code).avg_cost)]_vars

(* C30: total-cost accounting leaves no residual value on empty stock: in every  *)
(* reachable state, also under concurrent postings, a material whose on-hand     *)
(* quantity (the sum of its entries' signed quantities) is 0 has a sum of signed *)
(* total costs of 0.                                                             *)
C30_NoValueOnEmptyStock ==
    \A m \in ConcCodes :
        OnHand(stock_ledger, m) = Zero => SumTotalCost(stock_ledger, m) = Zero

====
